---- MODULE Spec2Model ----
(***************************************************************************)
(* SegmentationDataset (cellvit/training/datasets/segmentation_dataset.py) *)
(* as a state machine: the object's fields after __init__, cache_dataset,  *)
(* __len__, __getitem__ and the static collate_batch.                      *)
(*                                                                         *)
(* An annotation file is a pair of pixel maps (functions from <<row, col>> *)
(* to a natural number).  Every map value of the model is far below 2^32,  *)
(* so astype(np.uint32) (lines 102, 104) leaves it as it is.               *)
(***************************************************************************)
EXTENDS Integers, Sequences, FiniteSets, TLC

\* images            self.images: the image paths, sorted and filtered
\* annotation_files  the <stem>.npy files on disk: stem -> [inst_map, type_map]
\* normalize_stains  self.normalize_stains
\* transforms        self.transforms: "None" or "callable"
\* cache_images      self.cache_images: stem -> decoded RGB image
\* cache_annotations self.cache_annotations: stem -> sequence of <<x, y, type_id>>
\* ret               what the last call returned or raised
\* last_call         the last call and its inputs (the index, what the
\*                   transform and the normalizer did during it)
\* batch             the argument of collate_batch
VARIABLES images, annotation_files, normalize_stains, transforms,
          cache_images, cache_annotations, ret, last_call, batch

vars == <<images, annotation_files, normalize_stains, transforms,
          cache_images, cache_annotations, ret, last_call, batch>>

(***************************************************************************)
(* Bounds of the input sets.                                               *)
(***************************************************************************)
\* the instances of a map are labelled 1 and MaxLabel (labels need not be contiguous)
MaxLabel == 2
\* values of a type map are 0..MaxType
MaxType == 2
\* SpecSample: the maps are one row of StripLen pixels
StripLen == 2
\* SpecVote: the maps are one row of VoteLen pixels
VoteLen == 3
\* SpecCentroid: rows 0..MaxRow, columns 0..MaxCol, at most MaxPainted foreground pixels
MaxRow == 1
MaxCol == 2
MaxPainted == 3
\* SpecCollate: batches of at most MaxBatch samples with at most MaxDet cells each
MaxBatch == 2
MaxDet == 2

(***************************************************************************)
(* Small helpers standing for Python / numpy built-ins.                    *)
(***************************************************************************)
Range(f) == {f[k] : k \in DOMAIN f}

EmptyDict == [k \in {} |-> {}]

RECURSIVE SumOver(_, _)
SumOver(S, f) ==
    IF S = {} THEN 0
    ELSE LET e == CHOOSE x \in S : TRUE IN f[e] + SumOver(S \ {e}, f)

\* np.unique: the distinct values in ascending order
RECURSIVE np_unique(_)
np_unique(S) ==
    IF S = {} THEN <<>>
    ELSE LET m == CHOOSE x \in S : \A y \in S : x <= y
         IN <<m>> \o np_unique(S \ {m})

\* np.round of the quotient p/q (q > 0): nearest integer, exact halves to even
np_round_half_up(p, q) == (2 * p + q) \div (2 * q)

np_round(p, q) ==
    LET f == p \div q
        r == p % q
    IN IF 2 * r < q THEN f
       ELSE IF 2 * r > q THEN f + 1
       ELSE IF f % 2 = 0 THEN f ELSE f + 1

\* np.argmax: the first position holding the maximum (1-based here)
np_argmax_last(counts) ==
    CHOOSE i \in DOMAIN counts :
        /\ \A j \in DOMAIN counts : counts[j] <= counts[i]
        /\ \A j \in DOMAIN counts : j > i => counts[j] < counts[i]

np_argmax(counts) ==
    CHOOSE i \in DOMAIN counts :
        /\ \A j \in DOMAIN counts : counts[j] <= counts[i]
        /\ \A j \in DOMAIN counts : j < i => counts[j] < counts[i]

(***************************************************************************)
(* __init__ : the sorted directory listing, the suffix filter, the         *)
(* optional file list, the annotation paths and the two empty caches.      *)
(***************************************************************************)
\* every file the image directory may hold, in the order sorted() gives
Files == << [stem |-> "a", suffix |-> ".jpg"],
            [stem |-> "a", suffix |-> ".png"],
            [stem |-> "b", suffix |-> ".png"],
            [stem |-> "b", suffix |-> ".txt"] >>

ImageSuffixes == {".png", ".jpg", ".jpeg"}

Stems == {Files[k].stem : k \in DOMAIN Files}

\* filelist_path: not given, or the stems its csv rows name
Filelists == {[given |-> FALSE, stems |-> {}]}
                 \cup {[given |-> TRUE, stems |-> s] : s \in SUBSET Stems}

init_images(listing, filelist) ==
    LET is_image(f) == f \in listing /\ f.suffix \in ImageSuffixes
        selected(f) == (~filelist.given) \/ f.stem \in filelist.stems
    IN SelectSeq(SelectSeq(Files, is_image), selected)

\* self.annotations[i] is <labels>/<stem of images[i]>.npy: the file is named by the stem
annotations(imgs) == [i \in DOMAIN imgs |-> imgs[i].stem]

(***************************************************************************)
(* cache_dataset                                                           *)
(***************************************************************************)
\* Image.open(img_path).convert("RGB")
open_rgb(img_path) == [src |-> img_path, mode |-> "RGB"]

\* inst_map == inst_id : the pixels of the instance
inst_mask(inst_map, inst_id) == {p \in DOMAIN inst_map : inst_map[p] = inst_id}

\* scipy center_of_mass of a 0/1 mask: (mean row, mean column), kept as
\* the two sums and the pixel count
center_of_mass(mask) ==
    [sum_y |-> SumOver(mask, [p \in mask |-> p[1]]),
     sum_x |-> SumOver(mask, [p \in mask |-> p[2]]),
     n     |-> Cardinality(mask)]

\* cell_type[cell_type != 0] : the values that stay, as a set
nonzero_keep_all(values) == values

nonzero(values) == values \ {0}

\* the (x, y, type) record of one instance; raised when np.argmax gets the
\* empty counts of an instance that has no nonzero type pixel
cell_record(inst_map, type_map, inst_id) ==
    LET mask     == inst_mask(inst_map, inst_id)
        com      == center_of_mass(mask)
        type_ids == np_unique(nonzero({type_map[p] : p \in mask}))
        counts   == [k \in DOMAIN type_ids |->
                        Cardinality({p \in mask : type_map[p] = type_ids[k]})]
    IN IF type_ids = <<>>
       THEN [raised |-> TRUE]
       ELSE [raised |-> FALSE,
             x |-> np_round(com.sum_x, com.n),
             y |-> np_round(com.sum_y, com.n),
             t |-> type_ids[np_argmax(counts)]]

\* lines 106-123: the loop over np.unique(inst_map), label 0 skipped
extract(annotation) ==
    LET inst_map == annotation.inst_map
        type_map == annotation.type_map
        ids      == np_unique(Range(inst_map) \ {0})
        recs     == [k \in DOMAIN ids |-> cell_record(inst_map, type_map, ids[k])]
    IN IF \E k \in DOMAIN recs : recs[k].raised
       THEN [raised |-> TRUE, cell_annot |-> <<>>]
       ELSE [raised |-> FALSE,
             cell_annot |-> [k \in DOMAIN recs |-> <<recs[k].x, recs[k].y, recs[k].t>>]]

\* self.cache_annotations[img_path.stem] = cell_annot
store_annotation_extend(cache, stem, cell_annot) ==
    IF stem \in DOMAIN cache
    THEN (stem :> (cache[stem] \o cell_annot)) @@ cache
    ELSE (stem :> cell_annot) @@ cache

store_annotation(cache, stem, cell_annot) == (stem :> cell_annot) @@ cache

\* the loop of cache_dataset from image i on; an exception ends it and
\* leaves what the earlier iterations (and line 98 of this one) stored
RECURSIVE cache_loop(_, _, _, _, _)
cache_loop(i, imgs, files, ci, ca) ==
    IF i > Len(imgs) THEN [cache_images |-> ci, cache_annotations |-> ca, raised |-> FALSE]
    ELSE LET stem == imgs[i].stem
             ci2  == (stem :> open_rgb(imgs[i])) @@ ci
             ex   == extract(files[annotations(imgs)[i]])
         IN IF ex.raised
            THEN [cache_images |-> ci2, cache_annotations |-> ca, raised |-> TRUE]
            ELSE cache_loop(i + 1, imgs, files, ci2,
                            store_annotation(ca, stem, ex.cell_annot))

CacheDataset ==
    LET r == cache_loop(1, images, annotation_files, cache_images, cache_annotations)
    IN /\ cache_images' = r.cache_images
       /\ cache_annotations' = r.cache_annotations
       /\ ret' = [kind |-> IF r.raised THEN "ValueError" ELSE "None"]
       /\ last_call' = [op |-> "cache_dataset",
                        rebuild |-> (DOMAIN cache_images # {})]
       /\ UNCHANGED <<images, annotation_files, normalize_stains, transforms, batch>>

(***************************************************************************)
(* __len__                                                                 *)
(***************************************************************************)
DatasetLen ==
    /\ ret' = [kind |-> "int", value |-> Len(images)]
    /\ last_call' = [op |-> "len"]
    /\ UNCHANGED <<images, annotation_files, normalize_stains, transforms,
                   cache_images, cache_annotations, batch>>

(***************************************************************************)
(* __getitem__                                                             *)
(***************************************************************************)
\* self.images[index]: the 1-based position Python's list indexing reads
\* (negative indices count from the end), 0 when it raises IndexError
list_index(n, index) ==
    IF 0 <= index /\ index < n THEN index + 1
    ELSE IF -n <= index /\ index < 0 THEN n + index + 1
    ELSE 0

\* What one call of the injected transform does to the keypoints: it returns
\* those at the positions `kept` (in their order), each moved by `shift`,
\* and, when `extra`, one keypoint more.
NotCalled == [called |-> FALSE, kept |-> <<>>, shift |-> 0, extra |-> FALSE]

TransformOutcomes(n) ==
    {[called |-> TRUE, kept |-> np_unique(s), shift |-> d, extra |-> e] :
        s \in SUBSET (1..n), d \in 0..1, e \in BOOLEAN}

transform_keypoints(detections, t) ==
    [k \in 1..Len(t.kept) |->
        <<detections[t.kept[k]][1] + t.shift, detections[t.kept[k]][2] + t.shift>>]
    \o (IF t.extra THEN << <<0, 0>> >> ELSE <<>>)

\* line 161: types = [types[idx] for idx, _ in enumerate(detections)]
resync_types_skipped(types, detections) == [raised |-> FALSE, types |-> types]

resync_types(types, detections) ==
    IF Len(detections) > Len(types)
    THEN [raised |-> TRUE, types |-> <<>>]
    ELSE [raised |-> FALSE, types |-> SubSeq(types, 1, Len(detections))]

\* lines 146-147
split_detections(cell_annot) ==
    [k \in DOMAIN cell_annot |-> <<cell_annot[k][1], cell_annot[k][2]>>]

split_types(cell_annot) == [k \in DOMAIN cell_annot |-> cell_annot[k][3] - 1]

\* how far the call gets: "index" (line 142 raises), "cache" (line 144 or
\* 145 raises), "normalize" (line 152 raises) or "transform" (line 157 on)
getitem_stage(index, norm_ok) ==
    LET pos == list_index(Len(images), index)
    IN IF pos = 0 THEN "index"
       ELSE IF images[pos].stem \notin DOMAIN cache_images THEN "cache"
       ELSE IF images[pos].stem \notin DOMAIN cache_annotations THEN "cache"
       ELSE IF normalize_stains /\ ~norm_ok THEN "normalize"
       ELSE "transform"

\* lines 144-163 for a sample both caches hold
getitem_cached(index, norm_ok, t) ==
    LET img_name == images[list_index(Len(images), index)].stem
        cell_annot == cache_annotations[img_name]
        detections == split_detections(cell_annot)
        types == split_types(cell_annot)
        img == [src |-> cache_images[img_name].src,
                normalized |-> normalize_stains,
                transformed |-> t.called]
        keypoints == transform_keypoints(detections, t)
        synced == resync_types(types, keypoints)
    IN IF normalize_stains /\ ~norm_ok THEN [kind |-> "NormalizerError"]
       ELSE IF ~t.called
            THEN [kind |-> "ok", img |-> img, detections |-> detections,
                  types |-> types, name |-> img_name]
       ELSE IF synced.raised THEN [kind |-> "IndexError"]
       ELSE [kind |-> "ok", img |-> img, detections |-> keypoints,
             types |-> synced.types, name |-> img_name]

getitem_default_on_miss(index, norm_ok, t) ==
    LET stage == getitem_stage(index, norm_ok)
    IN IF stage = "index" THEN [kind |-> "IndexError"]
       ELSE IF stage = "cache"
            THEN [kind |-> "ok",
                  img |-> [src |-> images[list_index(Len(images), index)],
                           normalized |-> normalize_stains, transformed |-> t.called],
                  detections |-> <<>>, types |-> <<>>,
                  name |-> images[list_index(Len(images), index)].stem]
       ELSE getitem_cached(index, norm_ok, t)

\* the value __getitem__ returns, or the exception it raises: IndexError
\* of self.images[index], KeyError of a cache that lacks the stem
getitem(index, norm_ok, t) ==
    LET stage == getitem_stage(index, norm_ok)
    IN IF stage = "index" THEN [kind |-> "IndexError"]
       ELSE IF stage = "cache" THEN [kind |-> "KeyError"]
       ELSE getitem_cached(index, norm_ok, t)

\* the number of keypoints the transform is handed for this index
keypoint_count(index) ==
    LET pos == list_index(Len(images), index)
    IN IF pos = 0 THEN 0
       ELSE IF images[pos].stem \notin DOMAIN cache_annotations THEN 0
       ELSE Len(cache_annotations[images[pos].stem])

GetItemCall(index, norm_ok, t) ==
    LET stage == getitem_stage(index, norm_ok)
    IN /\ ret' = getitem(index, norm_ok, t)
       /\ last_call' = [op |-> "getitem", index |-> index,
                        norm_ok |-> (stage \in {"index", "cache"}) \/ norm_ok,
                        t |-> IF stage = "transform" THEN t ELSE NotCalled]

GetItemShiftsInPlace(index) ==
    /\ \E norm_ok \in (IF normalize_stains THEN BOOLEAN ELSE {TRUE}) :
       \E t \in (IF transforms = "callable"
                 THEN TransformOutcomes(keypoint_count(index)) ELSE {NotCalled}) :
           GetItemCall(index, norm_ok, t)
    /\ cache_annotations' =
           [s \in DOMAIN cache_annotations |->
               [k \in DOMAIN cache_annotations[s] |->
                   <<cache_annotations[s][k][1], cache_annotations[s][k][2],
                     IF list_index(Len(images), index) # 0
                        /\ images[list_index(Len(images), index)].stem = s
                     THEN cache_annotations[s][k][3] - 1
                     ELSE cache_annotations[s][k][3]>>]]
    /\ UNCHANGED <<images, annotation_files, normalize_stains, transforms,
                   cache_images, batch>>

GetItem(index) ==
    /\ \E norm_ok \in (IF normalize_stains THEN BOOLEAN ELSE {TRUE}) :
       \E t \in (IF transforms = "callable"
                 THEN TransformOutcomes(keypoint_count(index)) ELSE {NotCalled}) :
           GetItemCall(index, norm_ok, t)
    /\ UNCHANGED <<images, annotation_files, normalize_stains, transforms,
                   cache_images, cache_annotations, batch>>

\* the indices a caller may pass: every valid one and one beyond each end
Indices == (-(Len(images) + 1)) .. Len(images)

(***************************************************************************)
(* collate_batch (static): batch is a sequence of <<img, detections,       *)
(* types, name>> tuples, img a tensor with a shape.                        *)
(***************************************************************************)
\* torch.stack: a new leading axis, every tensor of the same shape
torch_stack(imgs) ==
    IF \E j \in DOMAIN imgs : imgs[j].shape # imgs[1].shape
    THEN [raised |-> TRUE]
    ELSE [raised |-> FALSE,
          tensor |-> [shape |-> <<Len(imgs)>> \o imgs[1].shape,
                      items |-> [j \in DOMAIN imgs |-> imgs[j].id]]]

collate_batch_swapped(b) ==
    IF b = <<>> THEN [kind |-> "ValueError"]
    ELSE LET stacked == torch_stack([j \in DOMAIN b |-> b[j][1]])
         IN IF stacked.raised THEN [kind |-> "RuntimeError"]
            ELSE [kind |-> "ok",
                  imgs |-> stacked.tensor,
                  detections_list |-> [j \in DOMAIN b |-> b[Len(b) + 1 - j][2]],
                  types_list |-> [j \in DOMAIN b |-> b[j][3]],
                  names |-> [j \in DOMAIN b |-> b[j][4]]]

\* zip(*batch) of no tuple yields nothing to unpack: ValueError
collate_batch(b) ==
    IF b = <<>> THEN [kind |-> "ValueError"]
    ELSE LET stacked == torch_stack([j \in DOMAIN b |-> b[j][1]])
         IN IF stacked.raised THEN [kind |-> "RuntimeError"]
            ELSE [kind |-> "ok",
                  imgs |-> stacked.tensor,
                  detections_list |-> [j \in DOMAIN b |-> b[j][2]],
                  types_list |-> [j \in DOMAIN b |-> b[j][3]],
                  names |-> [j \in DOMAIN b |-> b[j][4]]]

CollateBatch ==
    /\ ret' = collate_batch(batch)
    /\ last_call' = [op |-> "collate_batch"]
    /\ UNCHANGED <<images, annotation_files, normalize_stains, transforms,
                   cache_images, cache_annotations, batch>>

(***************************************************************************)
(* Input sets                                                              *)
(***************************************************************************)
\* the labels of the instances; 0 is the background
Labels == {1, MaxLabel}

Grid(rows, cols) == (0..(rows - 1)) \X (0..(cols - 1))

\* every pair of maps over the pixels
FullAnnots(pixels, labels, types) ==
    {[inst_map |-> im, type_map |-> tm] :
        im \in [pixels -> labels], tm \in [pixels -> types]}

\* the pairs of maps with at most `painted` foreground pixels, labelled from
\* `labels` and typed from `types`, both maps zero on the background
PaintedAnnots(pixels, painted, labels, types) ==
    UNION {{[inst_map |-> [p \in pixels |-> IF p \in S THEN im[p] ELSE 0],
             type_map |-> [p \in pixels |-> IF p \in S THEN tm[p] ELSE 0]] :
               im \in [S -> labels], tm \in [S -> types]} :
           S \in {T \in SUBSET pixels : Cardinality(T) <= painted}}

TypeLists == UNION {[1..m -> 0..1] : m \in 0..MaxDet}

SampleTuples ==
    {<<[id |-> x[1], shape |-> <<3, x[2], x[2]>>],
       [k \in 1..Len(x[3]) |-> <<k, Len(x[3]) - k>>], x[3], x[1]>> :
        x \in Stems \X (1..2) \X TypeLists}

Batches == UNION {[1..m -> SampleTuples] : m \in 0..MaxBatch}

(***************************************************************************)
(* Specifications                                                          *)
(***************************************************************************)
DatasetInit(listings, filelists, annots, norms, trans) ==
    /\ \E listing \in listings, filelist \in filelists :
           images = init_images(listing, filelist)
    /\ annotation_files \in [Range(annotations(images)) -> annots]
    /\ normalize_stains \in norms
    /\ transforms \in trans
    /\ cache_images = EmptyDict
    /\ cache_annotations = EmptyDict
    /\ ret = [kind |-> "None"]
    /\ last_call = [op |-> "init"]

OneFile == {{Files[2]}}

\* any directory, any file list; single-pixel maps
Init ==
    /\ DatasetInit(SUBSET Range(Files), Filelists,
                   FullAnnots(Grid(1, 1), {0} \cup Labels, 0..MaxType),
                   BOOLEAN, {"None", "callable"})
    /\ batch = <<>>

\* one sample, maps of one row of StripLen pixels
InitSample ==
    /\ DatasetInit(OneFile, {[given |-> FALSE, stems |-> {}]},
                   FullAnnots(Grid(1, StripLen), {0} \cup Labels, 0..MaxType),
                   BOOLEAN, {"None", "callable"})
    /\ batch = <<>>

\* one sample, no transform: maps of one row of VoteLen pixels
InitVote ==
    /\ DatasetInit(OneFile, {[given |-> FALSE, stems |-> {}]},
                   PaintedAnnots(Grid(1, VoteLen), VoteLen, Labels, 0..MaxType),
                   {FALSE}, {"None"})
    /\ batch = <<>>

\* one sample, no transform: instances of at most MaxPainted pixels, all of type 1
InitCentroid ==
    /\ DatasetInit(OneFile, {[given |-> FALSE, stems |-> {}]},
                   PaintedAnnots(Grid(MaxRow + 1, MaxCol + 1), MaxPainted,
                                 Labels, {1}),
                   {FALSE}, {"None"})
    /\ batch = <<>>

\* an empty dataset and any batch
InitCollate ==
    /\ DatasetInit({{}}, {[given |-> FALSE, stems |-> {}]}, {}, {FALSE}, {"None"})
    /\ batch \in Batches

Next ==
    \/ CacheDataset
    \/ DatasetLen
    \/ \E index \in Indices : GetItem(index)
    \/ CollateBatch

Spec == Init /\ [][Next]_vars

SpecSample == InitSample /\ [][Next]_vars

SpecVote == InitVote /\ [][Next]_vars

SpecCentroid == InitCentroid /\ [][Next]_vars

SpecCollate == InitCollate /\ [][Next]_vars

(***************************************************************************)
(* Properties                                                              *)
(***************************************************************************)
RemoveAt(seq, i) == [k \in 1..(Len(seq) - 1) |-> IF k < i THEN seq[k] ELSE seq[k + 1]]

AbsDiff(a, b) == IF a >= b THEN a - b ELSE b - a

\* the nonzero labels of the annotation file of stem s, and its k-th smallest
LabelsOf(s) == Range(annotation_files[s].inst_map) \ {0}

KthLabel(s, k) ==
    CHOOSE l \in LabelsOf(s) : Cardinality({m \in LabelsOf(s) : m < l}) = k - 1

PixelsOf(s, l) ==
    {p \in DOMAIN annotation_files[s].inst_map : annotation_files[s].inst_map[p] = l}

\* the number of pixels of label l in the file of stem s whose type is u
TypeCount(s, l, u) ==
    Cardinality({p \in PixelsOf(s, l) : annotation_files[s].type_map[p] = u})

\* the stem a __getitem__ call with a valid index reads
StemAt(index) == images[list_index(Len(images), index)].stem

ValidIndex(index) == list_index(Len(images), index) # 0

\* C1: when the transform returns the original keypoints with exactly the
\* i-th removed, the returned types are the original 0-based types with the
\* i-th entry removed.
C1_ResyncKeepsOriginalPosition ==
    (last_call.op = "getitem" /\ last_call.t.called) =>
        LET orig == split_types(cache_annotations[StemAt(last_call.index)])
        IN \A i \in 1..Len(orig) :
              (/\ last_call.t.kept = RemoveAt([k \in 1..Len(orig) |-> k], i)
               /\ last_call.t.shift = 0
               /\ ~last_call.t.extra)
              => /\ ret.kind = "ok"
                 /\ Len(ret.types) = Len(orig) - 1
                 /\ ret.types = RemoveAt(orig, i)

\* C2: after cache_dataset every sample has a stored annotation sequence
\* with exactly one record per nonzero label of its instance map, the k-th
\* record lying on the k-th smallest label (inside its bounding box, with a
\* type one of its pixels has).
C2_OneRecordPerLabel ==
    last_call.op = "cache_dataset" =>
        \A i \in DOMAIN images :
            LET s == images[i].stem
            IN /\ s \in DOMAIN cache_annotations
               /\ Len(cache_annotations[s]) = Cardinality(LabelsOf(s))
               /\ \A k \in DOMAIN cache_annotations[s] :
                     LET px == PixelsOf(s, KthLabel(s, k))
                         rec == cache_annotations[s][k]
                     IN /\ \E p \in px : p[2] <= rec[1]
                        /\ \E p \in px : p[2] >= rec[1]
                        /\ \E p \in px : p[1] <= rec[2]
                        /\ \E p \in px : p[1] >= rec[2]
                        /\ \E p \in px : annotation_files[s].type_map[p] = rec[3]

\* C3: the type of a stored record is the nonzero type with the highest
\* pixel count among the pixels of its instance, the smallest such type on
\* a tie.
C3_MajorityVote ==
    \A s \in DOMAIN cache_annotations :
        \A k \in DOMAIN cache_annotations[s] :
            LET l == KthLabel(s, k)
                t == cache_annotations[s][k][3]
            IN /\ t # 0
               /\ TypeCount(s, l, t) > 0
               /\ \A u \in Range(annotation_files[s].type_map) \ {0} :
                     /\ TypeCount(s, l, u) <= TypeCount(s, l, t)
                     /\ TypeCount(s, l, u) = TypeCount(s, l, t) => t <= u

\* a record stored for an instance on which two nonzero types tie for the
\* highest count and which also covers a pixel of type 0
C3_TieStored ==
    /\ last_call.op = "cache_dataset"
    /\ \E s \in DOMAIN cache_annotations :
         \E k \in DOMAIN cache_annotations[s] :
            /\ TypeCount(s, KthLabel(s, k), 0) > 0
            /\ \E u \in 1..MaxType :
                 /\ u # cache_annotations[s][k][3]
                 /\ TypeCount(s, KthLabel(s, k), u)
                       = TypeCount(s, KthLabel(s, k), cache_annotations[s][k][3])

\* C4: a __getitem__ call with a valid index on a dataset whose caches are
\* still empty raises KeyError and leaves both caches empty.
C4_GetItemBeforeCache ==
    [][(/\ cache_images = EmptyDict
        /\ cache_annotations = EmptyDict
        /\ last_call'.op = "getitem"
        /\ ValidIndex(last_call'.index))
       => (/\ ret'.kind = "KeyError"
           /\ cache_images' = EmptyDict
           /\ cache_annotations' = EmptyDict)]_vars

C4_KeyErrorRaised ==
    /\ last_call.op = "getitem"
    /\ ValidIndex(last_call.index)
    /\ ret.kind = "KeyError"
    /\ cache_images = EmptyDict
    /\ cache_annotations = EmptyDict
    /\ Len(images) >= 2

\* C5: a cache_dataset call on a dataset whose caches an earlier call
\* filled leaves both caches exactly as they were.
C5_CacheIdempotent ==
    [][(last_call'.op = "cache_dataset" /\ last_call'.rebuild)
       => (/\ cache_images' = cache_images
           /\ cache_annotations' = cache_annotations)]_vars

C5_Rebuilt ==
    /\ last_call.op = "cache_dataset"
    /\ last_call.rebuild
    /\ Cardinality(DOMAIN cache_annotations) = 2
    /\ \A s \in DOMAIN cache_annotations : cache_annotations[s] # <<>>
    /\ Len(images) = 3

\* C6: whenever __getitem__ returns, its type list is as long as its
\* detection list; and it returns whenever the transform hands back at most
\* as many keypoints as it was given.
C6_TypesAsLongAsDetections ==
    last_call.op = "getitem" =>
        /\ ret.kind = "ok" => Len(ret.types) = Len(ret.detections)
        /\ (/\ last_call.t.called
            /\ Len(last_call.t.kept) + (IF last_call.t.extra THEN 1 ELSE 0)
                  <= keypoint_count(last_call.index))
           => ret.kind = "ok"

C6_TransformDropped ==
    /\ last_call.op = "getitem"
    /\ last_call.t.called
    /\ ret.kind = "ok"
    /\ keypoint_count(last_call.index) = 2
    /\ Len(ret.detections) = 1

\* C7: the (x, y) of a stored record is (mean column, mean row) of the
\* pixels of its label, each rounded to the nearest integer and to the even
\* one on an exact half; a single-pixel instance at (r, c) gives (c, r).
C7_Centroid ==
    \A s \in DOMAIN cache_annotations :
        \A k \in DOMAIN cache_annotations[s] :
            LET px == PixelsOf(s, KthLabel(s, k))
                n == Cardinality(px)
                sum_col == SumOver(px, [p \in px |-> p[2]])
                sum_row == SumOver(px, [p \in px |-> p[1]])
                x == cache_annotations[s][k][1]
                y == cache_annotations[s][k][2]
            IN /\ 2 * AbsDiff(n * x, sum_col) <= n
               /\ 2 * AbsDiff(n * x, sum_col) = n => x % 2 = 0
               /\ 2 * AbsDiff(n * y, sum_row) <= n
               /\ 2 * AbsDiff(n * y, sum_row) = n => y % 2 = 0
               /\ n = 1 => px = {<<y, x>>}

\* a record whose mean column is an exact half rounded up and whose mean
\* row is an exact half rounded down, beside a single-pixel instance
C7_HalvesStored ==
    /\ last_call.op = "cache_dataset"
    /\ \E s \in DOMAIN cache_annotations :
         /\ \E k \in DOMAIN cache_annotations[s] :
              LET px == PixelsOf(s, KthLabel(s, k))
                  n == Cardinality(px)
              IN /\ 2 * SumOver(px, [p \in px |-> p[2]]) = n * (2 * cache_annotations[s][k][1] - 1)
                 /\ 2 * SumOver(px, [p \in px |-> p[1]]) = n * (2 * cache_annotations[s][k][2] + 1)
         /\ \E k \in DOMAIN cache_annotations[s] :
              Cardinality(PixelsOf(s, KthLabel(s, k))) = 1

\* C8: collate_batch of N >= 1 tuples with images of one shape returns
\* images with leading dimension N and three lists of length N whose j-th
\* entries are the j-th tuple's detections, types and name, unchanged.
C8_Collate ==
    (/\ last_call.op = "collate_batch"
     /\ batch # <<>>
     /\ \A j \in DOMAIN batch : batch[j][1].shape = batch[1][1].shape)
    => /\ ret.kind = "ok"
       /\ ret.imgs.shape[1] = Len(batch)
       /\ Len(ret.detections_list) = Len(batch)
       /\ Len(ret.types_list) = Len(batch)
       /\ Len(ret.names) = Len(batch)
       /\ \A j \in DOMAIN batch :
             /\ ret.detections_list[j] = batch[j][2]
             /\ ret.types_list[j] = batch[j][3]
             /\ ret.names[j] = batch[j][4]

C8_Collated ==
    /\ last_call.op = "collate_batch"
    /\ ret.kind = "ok"
    /\ Len(batch) = MaxBatch
    /\ ret.detections_list[1] = <<>>
    /\ Len(ret.detections_list[2]) = MaxDet
    /\ ret.names[1] # ret.names[2]

\* C9: no __getitem__ call changes cache_images or cache_annotations.
C9_GetItemReadsOnly ==
    [][last_call'.op = "getitem"
       => (/\ cache_images' = cache_images
           /\ cache_annotations' = cache_annotations)]_vars

C9_ReadAfterBuild ==
    /\ last_call.op = "getitem"
    /\ ret.kind = "ok"
    /\ ret.img.normalized
    /\ ret.img.transformed
    /\ ret.types # <<>>
    /\ Cardinality(DOMAIN cache_annotations) = 2

\* C10: every stored record has a type_id of at least 1, and every type
\* __getitem__ returns is at least 0.
C10_TypeIdRange ==
    /\ \A s \in DOMAIN cache_annotations :
          \A k \in DOMAIN cache_annotations[s] : cache_annotations[s][k][3] >= 1
    /\ (last_call.op = "getitem" /\ ret.kind = "ok")
          => \A k \in DOMAIN ret.types : ret.types[k] >= 0

\* types returned for an instance that also covers a pixel of type 0
C10_ZeroPixelIgnored ==
    /\ last_call.op = "getitem"
    /\ ret.kind = "ok"
    /\ ret.types # <<>>
    /\ \E s \in DOMAIN cache_annotations :
          \E k \in DOMAIN cache_annotations[s] :
              TypeCount(s, KthLabel(s, k), 0) > 0

====
